---------------------------- MODULE Spec2Model ----------------------------
(***************************************************************************)
(* A model of backend/app/calculator.py (FinancialRatioCalculator): the    *)
(* statement normaliser extract_financial_data, the account resolver       *)
(* get_account_value and the ratio engine built on them.                   *)
(*                                                                         *)
(* Text is a sequence of one-character strings, so that str.replace,       *)
(* str.strip, str() and pd.to_numeric are modelled by what they do to the  *)
(* characters.  An account id is a sequence of text tokens in which every  *)
(* whitespace character is a token of its own.                             *)
(*                                                                         *)
(* A float is a record [k, v]: k = "fin" with the integer v, k = "inf"     *)
(* with the sign v, or k = "nan".  Amounts are whole units.  A ratio is a  *)
(* float whose v counts hundredths (round(x, 2) keeps two decimals), so    *)
(* 66.67 is Fin(6667).  Binary floating point is modelled by exact         *)
(* rational arithmetic with round-half-to-even, which is what round(x, 2)  *)
(* is on every quotient that is representable.                             *)
(***************************************************************************)
EXTENDS Integers, Sequences, FiniteSets, TLC

VARIABLES account_mapping, statements, prev_statements, companies_data, call,
          result, threads, cache, now, cache_writable

\* The state of the data-fetch client: the cache files, the clock, and
\* whether the cache directory can be written.
clientVars == <<cache, now, cache_writable>>

vars == <<account_mapping, statements, prev_statements, companies_data, call,
          result, threads, clientVars>>

(***************************************************************************)
(* Bounds of the model.                                                    *)
(***************************************************************************)
\* The longest list of raw records drawn from AmountRecords or IdRecords.
MaxLen == 2

\* The most entities of a map handed to create_comparison_table.
MaxEntities == 2

\* The number of invocations that run concurrently on the instance.
NumInvocations == 2

\* The latest time, in seconds, the clock of the client is advanced to.
MaxTime == 5400

(***************************************************************************)
(* Floats.                                                                 *)
(***************************************************************************)
Fin(n) == [k |-> "fin", v |-> n]

NaN == [k |-> "nan", v |-> 0]

\* A KeyError leaving the function instead of a value.
KeyError == [k |-> "KeyError", v |-> 0]

IsFinite(x) == x.k = "fin"

\* x > 0 as Python evaluates it on floats: False for NaN.
GtZero(x) == (x.k = "fin" /\ x.v > 0) \/ (x.k = "inf" /\ x.v = 1)

Sign(n) == IF n > 0 THEN 1 ELSE IF n < 0 THEN -1 ELSE 0

Abs(n) == IF n < 0 THEN -n ELSE n

(***************************************************************************)
(* Text: str(), str.replace(',', ''), pd.to_numeric(errors='coerce').      *)
(***************************************************************************)
DigitChars == <<"0", "1", "2", "3", "4", "5", "6", "7", "8", "9">>

Digits == {DigitChars[i] : i \in 1..10}

DigitVal(c) == (CHOOSE i \in 1..10 : DigitChars[i] = c) - 1

RECURSIVE FormatNat(_)
FormatNat(n) ==
    IF n < 10 THEN <<DigitChars[n + 1]>>
    ELSE FormatNat(n \div 10) \o <<DigitChars[(n % 10) + 1]>>

\* str(n) of a Python int.
FormatInt(n) == IF n < 0 THEN <<"-">> \o FormatNat(-n) ELSE FormatNat(n)

RECURSIVE ParseNat(_)
ParseNat(s) ==
    IF Len(s) = 0 THEN 0
    ELSE 10 * ParseNat(SubSeq(s, 1, Len(s) - 1)) + DigitVal(s[Len(s)])

AllIn(s, chars) == \A i \in 1..Len(s) : s[i] \in chars

\* str.lower() on the letters of the tokens "nan", "inf" and "infinity".
Lower(c) ==
    CASE c = "I" -> "i" [] c = "N" -> "n" [] c = "F" -> "f" [] c = "A" -> "a"
      [] c = "T" -> "t" [] c = "Y" -> "y" [] OTHER -> c

LowerText(s) == [i \in 1..Len(s) |-> Lower(s[i])]

\* A variant of StrReplaceComma that removes the first comma only, as
\* str.replace(',', '', 1) would.
StrReplaceFirstComma(s) ==
    IF \E i \in 1..Len(s) : s[i] = ","
    THEN LET i == CHOOSE j \in 1..Len(s) : s[j] = "," /\ \A h \in 1..(j - 1) : s[h] # ","
         IN  SubSeq(s, 1, i - 1) \o SubSeq(s, i + 1, Len(s))
    ELSE s

\* Series.str.replace(',', ''): every comma is removed.
StrReplaceComma(s) == SelectSeq(s, LAMBDA c : c # ",")

DotAt(s) == IF \E i \in 1..Len(s) : s[i] = "."
            THEN CHOOSE i \in 1..Len(s) : s[i] = "." /\ \A j \in 1..(i - 1) : s[j] # "."
            ELSE 0

\* An unsigned decimal literal: digits, with an optional fraction.  Amounts
\* are whole units, so the fraction is read only when it is zero ("1000.0").
IsDecimal(s) ==
    LET d == DotAt(s)
        whole == IF d = 0 THEN s ELSE SubSeq(s, 1, d - 1)
        frac == IF d = 0 THEN <<>> ELSE SubSeq(s, d + 1, Len(s))
    IN  Len(whole) > 0 /\ AllIn(whole, Digits) /\ AllIn(frac, {"0"})

DecimalVal(s) ==
    LET d == DotAt(s)
    IN  ParseNat(IF d = 0 THEN s ELSE SubSeq(s, 1, d - 1))

InfTokens == { <<"i", "n", "f">>, <<"i", "n", "f", "i", "n", "i", "t", "y">> }

\* pd.to_numeric(..., errors='coerce') on one string: a signed decimal is its
\* value; "nan", "inf" and "infinity" (any case, signed) are the float of that
\* name; every other text is coerced to NaN.
ToNumeric(s) ==
    LET signed == Len(s) > 0 /\ s[1] \in {"+", "-"}
        sgn == IF Len(s) > 0 /\ s[1] = "-" THEN -1 ELSE 1
        body == IF signed THEN SubSeq(s, 2, Len(s)) ELSE s
    IN  IF IsDecimal(body) THEN Fin(sgn * DecimalVal(body))
        ELSE IF LowerText(body) \in InfTokens THEN [k |-> "inf", v |-> sgn]
        ELSE NaN

\* A variant of FillNa that leaves NaN in place, as the table would be
\* without the final fillna(0).
KeepNa(x) == x

\* Series.fillna(0).
FillNa(x) == IF x.k = "nan" THEN Fin(0) ELSE x


(***************************************************************************)
(* Raw records: the dicts handed to extract_financial_data.  A field is a  *)
(* Python value, or Absent when the dict has no such key.                  *)
(***************************************************************************)
Absent == [t |-> "absent", n |-> 0, s |-> <<>>]

PyNone == [t |-> "None", n |-> 0, s |-> <<>>]

PyInt(i) == [t |-> "int", n |-> i, s |-> <<>>]

PyStr(text) == [t |-> "str", n |-> 0, s |-> text]

\* The cell pd.DataFrame(statements) holds where a record lacks the key.
Missing == [t |-> "NaN", n |-> 0, s |-> <<>>]

amount_cols == <<"thstrm_amount", "frmtrm_amount", "bfefrmtrm_amount">>

Periods == {amount_cols[i] : i \in 1..3}

required_cols ==
    {"account_id", "account_nm", "thstrm_amount", "frmtrm_amount",
     "bfefrmtrm_amount", "sj_div"}

RawRecord(id, a1, a2, a3) ==
    [account_id |-> id, thstrm_amount |-> a1, frmtrm_amount |-> a2,
     bfefrmtrm_amount |-> a3]

\* df = pd.DataFrame(statements): the column exists when some record has the
\* key, and a record without it holds NaN there.
HasColumn(stmts, col) == \E i \in 1..Len(stmts) : stmts[i][col].t # "absent"

\* df[col] after "if col not in df.columns: df[col] = None".
ColumnCells(stmts, col) ==
    [i \in 1..Len(stmts) |->
        IF ~HasColumn(stmts, col) THEN PyNone
        ELSE IF stmts[i][col].t = "absent" THEN Missing
        ELSE stmts[i][col]]

\* The dtype pandas infers for a column of such cells.
ColumnDtype(cells) ==
    IF \A i \in 1..Len(cells) : cells[i].t = "int" THEN "int64"
    ELSE IF /\ \A i \in 1..Len(cells) : cells[i].t \in {"int", "None", "NaN"}
            /\ \E i \in 1..Len(cells) : cells[i].t = "int"
         THEN "float64"
    ELSE "object"

\* Series.astype(str) on one cell of a column of that dtype.
AsTypeStr(cell, dtype) ==
    CASE dtype = "int64" -> FormatInt(cell.n)
      [] dtype = "float64" ->
            IF cell.t = "int" THEN FormatInt(cell.n) \o <<".", "0">>
            ELSE <<"n", "a", "n">>
      [] OTHER ->
            CASE cell.t = "int" -> FormatInt(cell.n)
              [] cell.t = "None" -> <<"N", "o", "n", "e">>
              [] cell.t = "NaN" -> <<"n", "a", "n">>
              [] OTHER -> cell.s

\* Lines 71-72 on one cell.  After astype(str) no cell is missing, so the
\* first fillna('0') changes nothing.
NormalizeAmount(cell, dtype) ==
    FillNa(ToNumeric(StrReplaceComma(AsTypeStr(cell, dtype))))

NormalizeColumn(stmts, col) ==
    LET cells == ColumnCells(stmts, col)
        dtype == ColumnDtype(cells)
    IN  [i \in 1..Len(stmts) |-> NormalizeAmount(cells[i], dtype)]

EmptyDataFrame == [columns |-> {}, rows |-> <<>>]

extract_financial_data(stmts) ==
    IF Len(stmts) = 0 THEN EmptyDataFrame
    ELSE LET ids == ColumnCells(stmts, "account_id")
             a1 == NormalizeColumn(stmts, "thstrm_amount")
             a2 == NormalizeColumn(stmts, "frmtrm_amount")
             a3 == NormalizeColumn(stmts, "bfefrmtrm_amount")
         IN  [columns |-> required_cols,
              rows |-> [i \in 1..Len(stmts) |->
                          [account_id |-> ids[i], thstrm_amount |-> a1[i],
                           frmtrm_amount |-> a2[i], bfefrmtrm_amount |-> a3[i]]]]

\* DataFrame.empty
DfEmpty(df) == Len(df.rows) = 0

(***************************************************************************)
(* The account resolver.                                                   *)
(***************************************************************************)
Whitespace == {" ", "\t", "\n"}

RECURSIVE LStrip(_)
LStrip(s) ==
    IF Len(s) > 0 /\ s[1] \in Whitespace THEN LStrip(Tail(s)) ELSE s

RECURSIVE RStrip(_)
RStrip(s) ==
    IF Len(s) > 0 /\ s[Len(s)] \in Whitespace
    THEN RStrip(SubSeq(s, 1, Len(s) - 1)) ELSE s

\* str.strip()
StrStrip(s) == LStrip(RStrip(s))

\* A variant of the mask that compares the id as it stands in the table.
MaskAtUnstripped(row, account_id) ==
    row.account_id.t = "str" /\ row.account_id.s = account_id

\* One element of  df['account_id'].str.strip() == account_id : a cell that
\* is not a string strips to NaN, which equals nothing.
MaskAt(row, account_id) ==
    row.account_id.t = "str" /\ StrStrip(row.account_id.s) = account_id

\* df.loc[mask, period].iloc[0]
FirstMasked(df, account_id, period) ==
    LET i == CHOOSE j \in 1..Len(df.rows) :
                 /\ MaskAt(df.rows[j], account_id)
                 /\ \A h \in 1..(j - 1) : ~MaskAt(df.rows[h], account_id)
    IN  df.rows[i][period]

RECURSIVE AliasLoop(_, _, _, _)
AliasLoop(df, account_ids, period, i) ==
    IF i > Len(account_ids) THEN Fin(0)
    ELSE IF "account_id" \notin df.columns THEN KeyError
    ELSE IF \E j \in 1..Len(df.rows) : MaskAt(df.rows[j], account_ids[i])
         THEN FirstMasked(df, account_ids[i], period)
    ELSE AliasLoop(df, account_ids, period, i + 1)

\* A variant of get_account_value that takes the first row, in table order,
\* whose id is any of the aliases.
get_account_value_first_row(df, account_ids, period) ==
    LET Hit(j) == \E k \in 1..Len(account_ids) : MaskAt(df.rows[j], account_ids[k])
    IN  IF Len(account_ids) = 0 THEN Fin(0)
        ELSE IF "account_id" \notin df.columns THEN KeyError
        ELSE IF \E j \in 1..Len(df.rows) : Hit(j)
             THEN LET i == CHOOSE j \in 1..Len(df.rows) :
                               Hit(j) /\ \A h \in 1..(j - 1) : ~Hit(h)
                  IN  df.rows[i][period]
        ELSE Fin(0)

get_account_value(df, account_ids, period) == AliasLoop(df, account_ids, period, 1)

(***************************************************************************)
(* The alias registry built by __init__.                                   *)
(***************************************************************************)
AccountMapping ==
    [current_assets |-> << <<"ifrs-full_CurrentAssets">>, <<"ifrs_CurrentAssets">> >>,
     total_assets |-> << <<"ifrs-full_Assets">>, <<"ifrs_Assets">> >>,
     current_liabilities |->
        << <<"ifrs-full_CurrentLiabilities">>, <<"ifrs_CurrentLiabilities">> >>,
     total_liabilities |-> << <<"ifrs-full_Liabilities">>, <<"ifrs_Liabilities">> >>,
     total_equity |-> << <<"ifrs-full_Equity">>, <<"ifrs_Equity">> >>,
     revenue |-> << <<"ifrs-full_Revenue">>, <<"ifrs_Revenue">> >>,
     cost_of_sales |-> << <<"ifrs-full_CostOfSales">>, <<"ifrs_CostOfSales">> >>,
     gross_profit |-> << <<"ifrs-full_GrossProfit">>, <<"ifrs_GrossProfit">> >>,
     operating_profit |->
        << <<"dart_OperatingIncomeLoss">>, <<"ifrs-full_OperatingIncomeLoss">>,
           <<"ifrs_OperatingIncomeLoss">> >>,
     net_income |->
        << <<"ifrs-full_ProfitLoss">>, <<"ifrs_ProfitLoss">>,
           <<"ifrs-full_ProfitLossAttributableToOwnersOfParent">> >>,
     operating_cash_flow |->
        << <<"ifrs-full_CashFlowsFromUsedInOperatingActivities">>,
           <<"ifrs_CashFlowsFromUsedInOperatingActivities">> >>,
     investing_cash_flow |->
        << <<"ifrs-full_CashFlowsFromUsedInInvestingActivities">>,
           <<"ifrs_CashFlowsFromUsedInInvestingActivities">> >>,
     financing_cash_flow |->
        << <<"ifrs-full_CashFlowsFromUsedInFinancingActivities">>,
           <<"ifrs_CashFlowsFromUsedInFinancingActivities">> >>]

(***************************************************************************)
(* Float arithmetic of the ratio engine.                                   *)
(***************************************************************************)
\* n / d for d > 0, rounded to the nearest integer, ties to even.
RoundDiv(n, d) ==
    LET q == n \div d
        r == n % d
    IN  IF 2 * r < d THEN q
        ELSE IF 2 * r > d THEN q + 1
        ELSE IF q % 2 = 0 THEN q ELSE q + 1

ZeroDivisionError == [k |-> "ZeroDivisionError", v |-> 0]

\* a - b on floats.
FloatSub(a, b) ==
    CASE a.k = "nan" \/ b.k = "nan" -> NaN
      [] a.k = "fin" /\ b.k = "fin" -> Fin(a.v - b.v)
      [] a.k = "inf" /\ b.k = "fin" -> a
      [] a.k = "fin" /\ b.k = "inf" -> [k |-> "inf", v |-> -b.v]
      [] OTHER -> IF a.v = b.v THEN NaN ELSE a

\* round(num / den * scale, 2), in hundredths.
Quotient2(num, den, scale) ==
    CASE den.k = "fin" /\ den.v = 0 -> ZeroDivisionError
      [] num.k = "nan" \/ den.k = "nan" -> NaN
      [] num.k = "fin" /\ den.k = "fin" ->
            Fin(RoundDiv(Sign(den.v) * num.v * scale * 100, Abs(den.v)))
      [] num.k = "fin" /\ den.k = "inf" -> Fin(0)
      [] num.k = "inf" /\ den.k = "fin" -> [k |-> "inf", v |-> num.v * Sign(den.v)]
      [] OTHER -> NaN

\* A variant of GuardedRatio without the test of the denominator.
UnguardedRatio(num, den, scale) == Quotient2(num, den, scale)

\* A variant of GuardedRatio that also wants a positive numerator.
PositiveOnlyRatio(num, den, scale) ==
    IF GtZero(den) /\ GtZero(num) THEN Quotient2(num, den, scale) ELSE Fin(0)

\* A variant of the guard that only tells a zero denominator apart.
NonZeroGuardedRatio(num, den, scale) ==
    IF den = Fin(0) THEN Fin(0) ELSE Quotient2(num, den, scale)

\* if den > 0: round(num / den * scale, 2)  else: 0
GuardedRatio(num, den, scale) ==
    IF GtZero(den) THEN Quotient2(num, den, scale) ELSE Fin(0)

\* A variant of GuardedGrowth that tests the previous value against 0 with
\* != instead of >.
NonZeroGuardedGrowth(current, previous) ==
    IF previous # Fin(0) THEN Quotient2(FloatSub(current, previous), previous, 100)
    ELSE Fin(0)

\* if previous > 0: round((current - previous) / previous * 100, 2)  else: 0
GuardedGrowth(current, previous) ==
    IF GtZero(previous) THEN Quotient2(FloatSub(current, previous), previous, 100)
    ELSE Fin(0)

\* The default of get_account_value's period parameter.
DefaultPeriod == "thstrm_amount"

\* self.account_mapping[name]: the registry is a dict, and a dict raises
\* KeyError for a key it does not hold.
AccountMappingItem(name) ==
    IF name \in DOMAIN account_mapping THEN account_mapping[name] ELSE KeyError

Lookup(df, name) == get_account_value(df, account_mapping[name], DefaultPeriod)

\* An exception raised while the inputs were resolved leaves the function.
Raises(inputs) == \E f \in DOMAIN inputs : inputs[f].k = "KeyError"

RaisedKeyError == [raised |-> TRUE, ratios |-> <<>>]

Returned(ratios) == [raised |-> FALSE, ratios |-> ratios]

StabilityInputs(df) ==
    [current_assets |-> Lookup(df, "current_assets"),
     current_liabilities |-> Lookup(df, "current_liabilities"),
     total_assets |-> Lookup(df, "total_assets"),
     total_liabilities |-> Lookup(df, "total_liabilities"),
     total_equity |-> Lookup(df, "total_equity")]

\* A variant of calculate_stability_ratios whose debt ratio is taken over
\* total assets instead of total equity.
calculate_stability_ratios_debt_over_assets(df) ==
    LET x == StabilityInputs(df)
    IN  IF Raises(x) THEN RaisedKeyError
        ELSE Returned(
            [current_ratio |-> GuardedRatio(x.current_assets, x.current_liabilities, 100),
             debt_to_equity |-> GuardedRatio(x.total_liabilities, x.total_assets, 100),
             equity_ratio |-> GuardedRatio(x.total_equity, x.total_assets, 100)])

calculate_stability_ratios(df) ==
    LET x == StabilityInputs(df)
    IN  IF Raises(x) THEN RaisedKeyError
        ELSE Returned(
            [current_ratio |-> GuardedRatio(x.current_assets, x.current_liabilities, 100),
             debt_to_equity |-> GuardedRatio(x.total_liabilities, x.total_equity, 100),
             equity_ratio |-> GuardedRatio(x.total_equity, x.total_assets, 100)])

ProfitabilityInputs(df) ==
    [revenue |-> Lookup(df, "revenue"),
     gross_profit |-> Lookup(df, "gross_profit"),
     operating_profit |-> Lookup(df, "operating_profit"),
     net_income |-> Lookup(df, "net_income"),
     total_assets |-> Lookup(df, "total_assets"),
     total_equity |-> Lookup(df, "total_equity")]

\* A variant of calculate_profitability_ratios that reports a loss as 0.
calculate_profitability_ratios_no_loss(df) ==
    LET x == ProfitabilityInputs(df)
    IN  IF Raises(x) THEN RaisedKeyError
        ELSE Returned(
            [gross_margin |-> PositiveOnlyRatio(x.gross_profit, x.revenue, 100),
             operating_margin |-> PositiveOnlyRatio(x.operating_profit, x.revenue, 100),
             net_margin |-> PositiveOnlyRatio(x.net_income, x.revenue, 100),
             roa |-> PositiveOnlyRatio(x.net_income, x.total_assets, 100),
             roe |-> PositiveOnlyRatio(x.net_income, x.total_equity, 100)])

calculate_profitability_ratios(df) ==
    LET x == ProfitabilityInputs(df)
    IN  IF Raises(x) THEN RaisedKeyError
        ELSE Returned(
            [gross_margin |-> GuardedRatio(x.gross_profit, x.revenue, 100),
             operating_margin |-> GuardedRatio(x.operating_profit, x.revenue, 100),
             net_margin |-> GuardedRatio(x.net_income, x.revenue, 100),
             roa |-> GuardedRatio(x.net_income, x.total_assets, 100),
             roe |-> GuardedRatio(x.net_income, x.total_equity, 100)])

ActivityInputs(df) ==
    [revenue |-> Lookup(df, "revenue"),
     total_assets |-> Lookup(df, "total_assets")]

\* A variant of calculate_activity_ratios that scales the turnover to percent.
calculate_activity_ratios_percent(df) ==
    LET x == ActivityInputs(df)
    IN  IF Raises(x) THEN RaisedKeyError
        ELSE Returned(
            [asset_turnover |-> GuardedRatio(x.revenue, x.total_assets, 100)])

calculate_activity_ratios(df) ==
    LET x == ActivityInputs(df)
    IN  IF Raises(x) THEN RaisedKeyError
        ELSE Returned(
            [asset_turnover |-> GuardedRatio(x.revenue, x.total_assets, 1)])

GrowthInputs(df) ==
    [revenue |-> Lookup(df, "revenue"),
     net_income |-> Lookup(df, "net_income"),
     total_assets |-> Lookup(df, "total_assets")]

calculate_growth_rates(df_current, df_previous) ==
    LET cur == GrowthInputs(df_current)
        prev == GrowthInputs(df_previous)
    IN  IF Raises(cur) \/ Raises(prev) THEN RaisedKeyError
        ELSE Returned(
            [revenue_growth |-> GuardedGrowth(cur.revenue, prev.revenue),
             net_income_growth |-> GuardedGrowth(cur.net_income, prev.net_income),
             asset_growth |-> GuardedGrowth(cur.total_assets, prev.total_assets)])

\* A variant of calculate_all_ratios that computes the groups of an empty
\* table too.
calculate_all_ratios_unchecked(stmts) ==
    LET df == extract_financial_data(stmts)
        s == calculate_stability_ratios(df)
        p == calculate_profitability_ratios(df)
        a == calculate_activity_ratios(df)
    IN  IF s.raised \/ p.raised \/ a.raised THEN RaisedKeyError
        ELSE Returned([stability |-> s.ratios, profitability |-> p.ratios,
                       activity |-> a.ratios])

calculate_all_ratios(stmts) ==
    LET df == extract_financial_data(stmts)
        s == calculate_stability_ratios(df)
        p == calculate_profitability_ratios(df)
        a == calculate_activity_ratios(df)
    IN  IF DfEmpty(df)
        THEN Returned([stability |-> <<>>, profitability |-> <<>>, activity |-> <<>>])
        ELSE IF s.raised \/ p.raised \/ a.raised THEN RaisedKeyError
        ELSE Returned([stability |-> s.ratios, profitability |-> p.ratios,
                       activity |-> a.ratios])

(***************************************************************************)
(* The comparison aggregator.  companies_data is the dict in insertion     *)
(* order: a sequence of [key, data], the keys distinct.  A field of data   *)
(* is a Python value, or Absent when the dict has no such key.  The ten    *)
(* columns of a row are named here after what they hold: company_name and  *)
(* year, and one column per ratio key read, where the code labels them in  *)
(* Korean.                                                                 *)
(***************************************************************************)
PyList(l) == [t |-> "list", n |-> 0, s |-> l]

\* data.get(key, default)
DictGet(field, default) == IF field = Absent THEN default ELSE field

\* group.get(key, 0)
RatioGet(group, key) == IF key \in DOMAIN group THEN group[key] ELSE Fin(0)

\* The row dict of one entity; calculate_all_ratios is called on its list.
ComparisonRow(data) ==
    LET stmts == DictGet(data.statements, PyList(<<>>)).s
        company_name == DictGet(data.company_name, PyStr(<<>>))
        year == DictGet(data.year, PyStr(<<>>))
        r == calculate_all_ratios(stmts)
    IN  IF r.raised THEN KeyError
        ELSE [company_name |-> company_name,
              year |-> year,
              current_ratio |-> RatioGet(r.ratios.stability, "current_ratio"),
              debt_to_equity |-> RatioGet(r.ratios.stability, "debt_to_equity"),
              equity_ratio |-> RatioGet(r.ratios.stability, "equity_ratio"),
              roe |-> RatioGet(r.ratios.profitability, "roe"),
              roa |-> RatioGet(r.ratios.profitability, "roa"),
              operating_margin |-> RatioGet(r.ratios.profitability, "operating_margin"),
              net_margin |-> RatioGet(r.ratios.profitability, "net_margin"),
              asset_turnover |-> RatioGet(r.ratios.activity, "asset_turnover")]

\* pd.DataFrame(comparison_data): one row per dict of the list, in order.
ComparisonFrame(rows) ==
    IF \E i \in 1..Len(rows) : rows[i] = KeyError THEN RaisedKeyError
    ELSE [raised |-> FALSE, table |-> [rows |-> rows]]

\* A variant of create_comparison_table that merges equal rows.
create_comparison_table_drop_duplicates(data) ==
    LET RECURSIVE DropDuplicates(_)
        DropDuplicates(rows) ==
            IF Len(rows) = 0 THEN <<>>
            ELSE LET init == DropDuplicates(SubSeq(rows, 1, Len(rows) - 1))
                     last == rows[Len(rows)]
                 IN  IF \E i \in 1..Len(init) : init[i] = last THEN init
                     ELSE Append(init, last)
    IN  ComparisonFrame(
            DropDuplicates([i \in 1..Len(data) |-> ComparisonRow(data[i].data)]))

\* A variant of create_comparison_table that leaves out the entities without
\* line items.
create_comparison_table_skip_empty(data) ==
    LET kept == SelectSeq(data,
                    LAMBDA e : DictGet(e.data.statements, PyList(<<>>)).s # <<>>)
    IN  ComparisonFrame([i \in 1..Len(kept) |-> ComparisonRow(kept[i].data)])

\* A variant of create_comparison_table whose rows carry the gross margin
\* as well.
create_comparison_table_with_gross_margin(data) ==
    ComparisonFrame([i \in 1..Len(data) |->
        LET row == ComparisonRow(data[i].data)
        IN  IF row = KeyError THEN row
            ELSE [c \in DOMAIN row \cup {"gross_margin"} |->
                     IF c = "gross_margin" THEN Fin(0) ELSE row[c]]])

create_comparison_table(data) ==
    ComparisonFrame([i \in 1..Len(data) |-> ComparisonRow(data[i].data)])

(***************************************************************************)
(* The data-fetch client (dart_client.py).  A cache file is NoFile or a    *)
(* record of its last write time and its content: the JSON text of some    *)
(* data, or the beginning of one that a writer did not finish.  A cache    *)
(* key is the triple <<corp_code, bsns_year, reprt_code>> that the file    *)
(* name is made of.  A function of the client returns a value, None, or    *)
(* the exception that left it.                                             *)
(***************************************************************************)
\* settings.cache_ttl
cache_ttl == 3600

NoFile == [exists |-> FALSE, mtime |-> 0, content |-> <<>>]

File(mtime, content) == [exists |-> TRUE, mtime |-> mtime, content |-> content]

\* json.dump(data, f): the text json.load reads back as data.
JsonText(data) == [kind |-> "json", value |-> data]

\* A file opened for writing whose text was not written to the end.
PartialText == [kind |-> "partial", value |-> <<>>]

Raised(exception) == [raised |-> exception]

\* json.load(f)
JsonLoad(content) ==
    IF content.kind = "json" THEN content.value ELSE Raised("JSONDecodeError")

\* The JSON bodies of the upstream: statements under status '000', and the
\* answer that there is no data.
StatementsData(version) == [status |-> "000", list |-> version]

NoDataBody == [status |-> "013", list |-> "none"]

CacheKeys == {<<"00126380", "2023", "11011">>, <<"00164779", "2023", "11011">>}

NoCache == [key \in CacheKeys |-> NoFile]

\* A variant of _load_from_cache that still serves an entry whose age is
\* the time to live.
load_from_cache_inclusive(files, cache_key, time) ==
    LET cache_path == files[cache_key]
    IN  IF cache_path.exists /\ time - cache_path.mtime <= cache_ttl
        THEN JsonLoad(cache_path.content)
        ELSE PyNone

\* _load_from_cache
load_from_cache(files, cache_key, time) ==
    LET cache_path == files[cache_key]
    IN  IF cache_path.exists /\ time - cache_path.mtime < cache_ttl
        THEN JsonLoad(cache_path.content)
        ELSE PyNone

\* _save_to_cache: the files after it, or the OSError of open() when the
\* directory cannot be written.
save_to_cache(files, cache_key, data, time, writable) ==
    IF writable
    THEN [error |-> "", files |-> [files EXCEPT ![cache_key] = File(time, JsonText(data))]]
    ELSE [error |-> "OSError", files |-> files]

\* What requests.get, raise_for_status and response.json come to.
UpstreamOutcomes ==
    {[kind |-> "ConnectionError", body |-> <<>>],
     [kind |-> "HTTPError", body |-> <<>>],
     [kind |-> "JSONDecodeError", body |-> <<>>],
     [kind |-> "json", body |-> StatementsData("v1")],
     [kind |-> "json", body |-> StatementsData("v2")],
     [kind |-> "json", body |-> NoDataBody]}

\* if cached_data:
Truthy(x) == x # PyNone /\ "raised" \notin DOMAIN x

\* A variant of get_financial_statements that saves the JSON body before it
\* looks at its status.
get_financial_statements_saving_any(files, cache_key, time, writable, upstream) ==
    LET cached_data == load_from_cache(files, cache_key, time)
        saved == save_to_cache(files, cache_key, upstream.body, time, writable)
    IN  IF "raised" \in DOMAIN cached_data
        THEN [ret |-> cached_data, files |-> files, requested |-> FALSE]
        ELSE IF Truthy(cached_data)
        THEN [ret |-> cached_data, files |-> files, requested |-> FALSE]
        ELSE IF upstream.kind # "json"
        THEN [ret |-> PyNone, files |-> files, requested |-> TRUE]
        ELSE IF saved.error # ""
        THEN [ret |-> PyNone, files |-> files, requested |-> TRUE]
        ELSE IF upstream.body.status # "000"
        THEN [ret |-> PyNone, files |-> saved.files, requested |-> TRUE]
        ELSE [ret |-> upstream.body, files |-> saved.files, requested |-> TRUE]

\* get_financial_statements: what it returns or raises, the files it
\* leaves, and whether it sent a request upstream.
get_financial_statements(files, cache_key, time, writable, upstream) ==
    LET cached_data == load_from_cache(files, cache_key, time)
        saved == save_to_cache(files, cache_key, upstream.body, time, writable)
    IN  IF "raised" \in DOMAIN cached_data
        THEN [ret |-> cached_data, files |-> files, requested |-> FALSE]
        ELSE IF Truthy(cached_data)
        THEN [ret |-> cached_data, files |-> files, requested |-> FALSE]
        ELSE IF upstream.kind # "json"
        THEN [ret |-> PyNone, files |-> files, requested |-> TRUE]
        ELSE IF upstream.body.status # "000"
        THEN [ret |-> PyNone, files |-> files, requested |-> TRUE]
        ELSE IF saved.error # ""
        THEN [ret |-> PyNone, files |-> files, requested |-> TRUE]
        ELSE [ret |-> upstream.body, files |-> saved.files, requested |-> TRUE]

(***************************************************************************)
(* The request layer (main.py).  A list of a request is the sequence of    *)
(* its items, numbered; what the data-fetch client has for a pair of       *)
(* company and year is given by "available": data for all pairs, for none, *)
(* or for the pairs of the first company.  A response is its status, its   *)
(* body and the number of statement fetches the handler made.              *)
(***************************************************************************)
\* settings.max_companies_per_request
max_companies_per_request == 10

\* settings.max_years_per_request
max_years_per_request == 5

Response(status, body, fetches) ==
    [status |-> status, body |-> body, fetches |-> fetches]

HasData(available, company, year) ==
    CASE available = "all" -> TRUE
      [] available = "first" -> company = 1
      [] OTHER -> FALSE

\* The pairs <<i, j>> of a loop over n companies and, within, m years, in
\* the order the loop takes them.
RECURSIVE LoopPairs(_, _, _)
LoopPairs(n, m, k) ==
    IF k > n * m THEN <<>>
    ELSE << <<((k - 1) \div m) + 1, ((k - 1) % m) + 1>> >> \o LoopPairs(n, m, k + 1)

\* dart_client.get_multiple_financial_statements: one fetch per pair, and
\* the keys of the pairs that gave data.
get_multiple_financial_statements(corp_codes, years, available) ==
    LET pairs == LoopPairs(Len(corp_codes), Len(years), 1)
    IN  [results |-> SelectSeq(pairs, LAMBDA p : HasData(available, p[1], p[2])),
         fetches |-> Len(pairs)]

\* A variant of the statements endpoint that does not count the years.
api_get_financial_statements_any_years(corp_codes, years, available) ==
    LET r == get_multiple_financial_statements(corp_codes, years, available)
    IN  IF Len(corp_codes) > max_companies_per_request
        THEN Response(400, <<>>, 0)
        ELSE IF r.results = <<>> THEN Response(404, <<>>, r.fetches)
        ELSE Response(200, r.results, r.fetches)

\* GET /api/financial/statements
api_get_financial_statements(corp_codes, years, available) ==
    LET r == get_multiple_financial_statements(corp_codes, years, available)
    IN  IF Len(corp_codes) > max_companies_per_request
        THEN Response(400, <<>>, 0)
        ELSE IF Len(years) > max_years_per_request
        THEN Response(400, <<>>, 0)
        ELSE IF r.results = <<>> THEN Response(404, <<>>, r.fetches)
        ELSE Response(200, r.results, r.fetches)

\* GET /api/financial/ratios
api_calculate_financial_ratios(corp_codes, years, available) ==
    LET r == get_multiple_financial_statements(corp_codes, years, available)
    IN  IF r.results = <<>> THEN Response(404, <<>>, r.fetches)
        ELSE Response(200, r.results, r.fetches)

\* The parameters DartAPIClient.get_financial_statements takes.
GetFinancialStatementsParams == {"corp_code", "bsns_year", "reprt_code"}

\* A call of a Python function with keyword arguments it does not take
\* raises TypeError before its body runs.
CallRaisesTypeError(params, keywords) == ~(keywords \subseteq params)

\* request_data.get(key, default)
RequestGet(field, default) == IF field.present THEN field.value ELSE default

\* The loop of create_comparison and the table made of what it gathered.
comparison_loop(companies, years, available) ==
    LET pairs == LoopPairs(Len(companies), Len(years), 1)
        data == SelectSeq(pairs, LAMBDA p : HasData(available, p[1], p[2]))
    IN  IF Len(pairs) > 0
           /\ CallRaisesTypeError(GetFinancialStatementsParams,
                                  {"corp_code", "bsns_year", "fs_div"})
        THEN Response(500, [detail |-> "TypeError"], 0)
        ELSE Response(200, [data |-> data, summary |-> Len(data)], Len(pairs))

\* A variant of the comparison endpoint that takes any fs_div.
api_create_comparison_any_fs_div(request_data, available) ==
    LET companies == RequestGet(request_data.companies, <<>>)
        years == RequestGet(request_data.years, <<>>)
    IN  IF companies = <<>> \/ years = <<>> THEN Response(400, <<>>, 0)
        ELSE comparison_loop(companies, years, available)

\* POST /api/financial/comparison
api_create_comparison(request_data, available) ==
    LET companies == RequestGet(request_data.companies, <<>>)
        years == RequestGet(request_data.years, <<>>)
        fs_div == RequestGet(request_data.fs_div, "CFS")
    IN  IF companies = <<>> \/ years = <<>> THEN Response(400, <<>>, 0)
        ELSE IF fs_div \notin {"CFS", "OFS"} THEN Response(400, <<>>, 0)
        ELSE comparison_loop(companies, years, available)

(***************************************************************************)
(* The inputs.  Lists of up to MaxLen raw records of one statement         *)
(* exercise the normaliser and the resolver; the metric cases give each    *)
(* metric of one ratio group a row of its own and exercise the arithmetic. *)
(***************************************************************************)
\* The values an amount field is given as: absent, null, numbers, and text.
RawAmounts ==
    <<
       Absent,
       PyNone,
       PyInt(1000),
       PyInt(-25),
       PyStr(<<"1", ",", "0", "0", "0">>),   \* "1,000"
       PyStr(<<"1", ",", "2", "3", "4", ",", "5", "6", "7">>),   \* "1,234,567"
       PyStr(<<"-", "1", ",", "5", "0", "0">>),   \* "-1,500"
       PyStr(<<"1", "2", "a", "b", "c">>),   \* "12abc"
       PyStr(<<>>),   \* ""
       PyStr(<<"i", "n", "f">>),   \* "inf"
       PyStr(<<"I", "n", "f", "i", "n", "i", "t", "y">>),   \* "Infinity"
       PyStr(<<"-", "i", "n", "f">>),   \* "-inf"
       PyStr(<<"n", "a", "n">>),   \* "nan"
       PyStr(<<"0">>),   \* "0"
       PyStr(<<"-">>)   \* "-"
    >>

Cyc(i) == ((i - 1) % Len(RawAmounts)) + 1

CashFlowId == PyStr(<<"ifrs-full_CashFlowsFromUsedInOperatingActivities">>)

\* Cash-flow line items: every amount column is given every raw value, and
\* one record has no current amount, "N/A" and null.
AmountRecords ==
    {RawRecord(CashFlowId, RawAmounts[i], RawAmounts[Cyc(i + 1)], RawAmounts[Cyc(i + 2)]) :
        i \in 1..Len(RawAmounts)}
    \cup {RawRecord(CashFlowId, Absent, PyStr(<<"N", "/", "A">>), PyNone)}

Amt(n) == PyStr(FormatInt(n))

\* Total-assets line items under both aliases, under a padded id, and under
\* ids that are no alias: of another case, longer, empty and absent.
IdRecords ==
    {RawRecord(PyStr(<<"ifrs-full_Assets">>), Amt(0), Amt(1), Amt(2)),
     RawRecord(PyStr(<<"ifrs-full_Assets">>), Amt(5), Amt(6), Amt(7)),
     RawRecord(PyStr(<<"ifrs_Assets">>), Amt(7), Amt(8), Amt(9)),
     RawRecord(PyStr(<<" ", "ifrs-full_Assets", " ">>), Amt(3), Amt(4), Amt(5)),
     RawRecord(PyStr(<<"ifrs-full_assets">>), Amt(11), Amt(12), Amt(13)),
     RawRecord(PyStr(<<"ifrs-full_Assets", "Abstract">>), Amt(14), Amt(15), Amt(16)),
     RawRecord(PyStr(<<>>), Amt(17), Amt(18), Amt(19)),
     RawRecord(Absent, Amt(20), Amt(21), Amt(22))}

ListsOf(S, n) == UNION {[1..m -> S] : m \in 0..n}

ListCases ==
    {<<l, <<>> >> : l \in ListsOf(AmountRecords, MaxLen) \cup ListsOf(IdRecords, MaxLen)}

\* One row per metric: the id is the metric's alias number k, the current
\* amount is the text of n, and the two earlier periods hold other amounts.
MetricRow(name, k, n) ==
    RawRecord(PyStr(AccountMapping[name][k]), n, Amt(9), Amt(8))

StabilityCases ==
    {<< <<MetricRow("current_assets", 1, ca), MetricRow("current_liabilities", 1, cl),
          MetricRow("total_assets", 2, ta), MetricRow("total_liabilities", 1, tl),
          MetricRow("total_equity", 2, te)>>, <<>> >> :
        ca \in {Amt(1000), Amt(0), PyStr(<<"i", "n", "f">>)},
        cl \in {Amt(500), Amt(0), Amt(-500), Amt(3)},
        ta \in {Amt(2000), Amt(0), Amt(3), Amt(-2000)},
        tl \in {Amt(800), Amt(-100)},
        te \in {Amt(1200), Amt(0), Amt(-600), Amt(7), PyStr(<<"-", "i", "n", "f">>)}}

ProfitabilityCases ==
    {<< <<MetricRow("revenue", 1, rev), MetricRow("gross_profit", 1, gp),
          MetricRow("operating_profit", 1, op), MetricRow("net_income", 2, ni),
          MetricRow("total_assets", 1, ta), MetricRow("total_equity", 1, te)>>, <<>> >> :
        rev \in {Amt(1500), Amt(0), Amt(-5)},
        gp \in {Amt(600), Amt(-40)},
        op \in {Amt(150), Amt(-37)},
        ni \in {Amt(120), Amt(-77)},
        ta \in {Amt(2000), Amt(0), Amt(7), Amt(-7)},
        te \in {Amt(1200), Amt(0), Amt(-600)}}

GrowthRows(rev, ni, ta) ==
    <<MetricRow("revenue", 1, rev), MetricRow("net_income", 1, ni),
      MetricRow("total_assets", 1, ta)>>

GrowthCases ==
    {<<GrowthRows(c[1], c[2], c[3]), GrowthRows(p[1], p[2], p[3])>> :
        c \in {Amt(1500), Amt(-20)} \X {Amt(120), Amt(-77)} \X {Amt(2000), Amt(0)},
        p \in {Amt(1350), Amt(0), Amt(-10)} \X {Amt(108), Amt(0), Amt(-9)}
              \X {Amt(1800), Amt(0), Amt(-1)}}

Inputs == ListCases \cup StabilityCases \cup ProfitabilityCases \cup GrowthCases

\* The entities compared.  SampleStatements gives every ratio a value,
\* LossStatements a loss over no assets.
SampleStatements ==
    <<MetricRow("current_assets", 1, Amt(1000)),
      MetricRow("current_liabilities", 1, Amt(500)),
      MetricRow("total_assets", 1, Amt(2000)),
      MetricRow("total_liabilities", 1, Amt(800)),
      MetricRow("total_equity", 1, Amt(1200)),
      MetricRow("revenue", 1, Amt(1500)),
      MetricRow("operating_profit", 1, Amt(150)),
      MetricRow("net_income", 1, Amt(120))>>

LossStatements ==
    <<MetricRow("revenue", 1, Amt(1500)),
      MetricRow("net_income", 1, Amt(-77)),
      MetricRow("total_assets", 1, Amt(0))>>

CompanyData(stmts, company_name, year) ==
    [statements |-> stmts, company_name |-> company_name, year |-> year]

Companies ==
    {CompanyData(PyList(SampleStatements), PyStr(<<"Samsung">>), PyStr(<<"2023">>)),
     CompanyData(PyList(LossStatements), PyStr(<<"LG">>), PyStr(<<"2023">>)),
     CompanyData(PyList(<<>>), PyStr(<<"LG">>), PyStr(<<"2022">>)),
     CompanyData(Absent, PyStr(<<"Samsung">>), Absent),
     CompanyData(Absent, Absent, Absent)}

\* The keys "corp_code_year" of the map, in the order they are inserted.
CompanyKeys == <<"00164779_2023", "00126380_2023", "00126380_2022", "00401731_2023">>

CompaniesCases ==
    {[i \in 1..Len(l) |-> [key |-> CompanyKeys[i], data |-> l[i]]] :
        l \in ListsOf(Companies, MaxEntities)}

\* The canonical names the registry is asked for: its own, and one it does
\* not hold.
CanonicalNames == DOMAIN AccountMapping \cup {"ebitda"}

\* The alias lists get_account_value is called with.
AliasArgs ==
    {<<>>,
     << <<"nonexistent_id">> >>,
     AccountMapping["total_assets"],
     << <<"ifrs_Assets">>, <<"ifrs-full_Assets">> >>,
     AccountMapping["operating_cash_flow"]}

(***************************************************************************)
(* The state machine: the calculator instance and the arguments of the     *)
(* calls made on it.  The calculator is synchronous: a call is made when   *)
(* the previous one has returned and its result has been taken; call and   *)
(* result hold the call that has just returned and what it returned.       *)
(***************************************************************************)
Call(op, account_ids, period) ==
    [op |-> op, account_ids |-> account_ids, period |-> period]

NoCall == Call("none", <<>>, "")

Init ==
    /\ account_mapping = AccountMapping
    /\ \/ /\ \E c \in Inputs : statements = c[1] /\ prev_statements = c[2]
          /\ companies_data = <<>>
       \/ /\ statements = <<>>
          /\ prev_statements = <<>>
          /\ companies_data \in CompaniesCases
    /\ call = NoCall
    /\ result = <<>>
    /\ threads = <<>>
    /\ cache = NoCache
    /\ now = 0
    /\ cache_writable = TRUE

\* A variant of ExtractFinancialData that takes the commas out of the
\* current amounts in the caller's own records.
ExtractFinancialDataInPlace ==
    /\ call = NoCall
    /\ call' = Call("extract_financial_data", <<>>, "")
    /\ result' = extract_financial_data(statements)
    /\ statements' =
          [i \in 1..Len(statements) |->
              [statements[i] EXCEPT !.thstrm_amount =
                  IF @.t = "str" THEN PyStr(StrReplaceComma(@.s)) ELSE @]]
    /\ UNCHANGED <<clientVars, account_mapping, prev_statements, companies_data,
                   threads>>

ExtractFinancialData ==
    /\ call = NoCall
    /\ call' = Call("extract_financial_data", <<>>, "")
    /\ result' = extract_financial_data(statements)
    /\ UNCHANGED <<clientVars, account_mapping, statements, prev_statements, companies_data, threads>>

GetAccountValue ==
    \E account_ids \in AliasArgs, period \in Periods :
        /\ call = NoCall
        /\ call' = Call("get_account_value", account_ids, period)
        /\ result' = get_account_value(extract_financial_data(statements),
                                       account_ids, period)
        /\ UNCHANGED <<clientVars, account_mapping, statements, prev_statements, companies_data, threads>>

\* A variant of CalculateStabilityRatios that consumes the alias it has
\* tried from the registry's own list.
CalculateStabilityRatiosPoppingAlias ==
    /\ call = NoCall
    /\ call' = Call("calculate_stability_ratios", <<>>, "")
    /\ result' = calculate_stability_ratios(extract_financial_data(statements))
    /\ account_mapping' =
          [account_mapping EXCEPT !["current_assets"] =
              IF Len(@) = 0 THEN @ ELSE Tail(@)]
    /\ UNCHANGED <<clientVars, statements, prev_statements, companies_data, threads>>

CalculateStabilityRatios ==
    /\ call = NoCall
    /\ call' = Call("calculate_stability_ratios", <<>>, "")
    /\ result' = calculate_stability_ratios(extract_financial_data(statements))
    /\ UNCHANGED <<clientVars, account_mapping, statements, prev_statements, companies_data, threads>>

CalculateProfitabilityRatios ==
    /\ call = NoCall
    /\ call' = Call("calculate_profitability_ratios", <<>>, "")
    /\ result' = calculate_profitability_ratios(extract_financial_data(statements))
    /\ UNCHANGED <<clientVars, account_mapping, statements, prev_statements, companies_data, threads>>

CalculateActivityRatios ==
    /\ call = NoCall
    /\ call' = Call("calculate_activity_ratios", <<>>, "")
    /\ result' = calculate_activity_ratios(extract_financial_data(statements))
    /\ UNCHANGED <<clientVars, account_mapping, statements, prev_statements, companies_data, threads>>

CalculateGrowthRates ==
    /\ call = NoCall
    /\ call' = Call("calculate_growth_rates", <<>>, "")
    /\ result' = calculate_growth_rates(extract_financial_data(statements),
                                        extract_financial_data(prev_statements))
    /\ UNCHANGED <<clientVars, account_mapping, statements, prev_statements, companies_data, threads>>

CalculateAllRatios ==
    /\ call = NoCall
    /\ call' = Call("calculate_all_ratios", <<>>, "")
    /\ result' = calculate_all_ratios(statements)
    /\ UNCHANGED <<clientVars, account_mapping, statements, prev_statements, companies_data, threads>>

\* The registry lookup the ratio calculators start with.
LookupAliases ==
    \E name \in CanonicalNames :
        /\ call = NoCall
        /\ call' = [op |-> "account_mapping", account_ids |-> <<>>, period |-> "",
                    name |-> name]
        /\ result' = AccountMappingItem(name)
        /\ UNCHANGED <<clientVars, account_mapping, statements, prev_statements, companies_data, threads>>

CreateComparisonTable ==
    /\ call = NoCall
    /\ call' = Call("create_comparison_table", <<>>, "")
    /\ result' = create_comparison_table(companies_data)
    /\ UNCHANGED <<clientVars, account_mapping, statements, prev_statements, companies_data, threads>>

\* The caller takes the result; the next call can be made.
Return ==
    /\ call # NoCall
    /\ call' = NoCall
    /\ result' = <<>>
    /\ UNCHANGED <<clientVars, account_mapping, statements, prev_statements, companies_data, threads>>

Next ==
    \/ ExtractFinancialData
    \/ GetAccountValue
    \/ CalculateStabilityRatios
    \/ CalculateProfitabilityRatios
    \/ CalculateActivityRatios
    \/ CalculateGrowthRates
    \/ CalculateAllRatios
    \/ LookupAliases
    \/ CreateComparisonTable
    \/ Return

Spec == Init /\ [][Next]_vars

(***************************************************************************)
(* Concurrent invocations.  The request handlers share the one calculator  *)
(* instance; threads[t] is an invocation of calculate_all_ratios or of     *)
(* create_comparison_table with its argument, its position, its local      *)
(* variables and, once it is done, the value it returned.  An invocation   *)
(* takes one step per call it makes into the instance, and the steps of    *)
(* different invocations interleave in any order.                          *)
(***************************************************************************)
Invocation(op, arg) ==
    [op |-> op, arg |-> arg, pc |-> "start", df |-> <<>>, stability |-> <<>>,
     profitability |-> <<>>, comparison_data |-> <<>>, ret |-> <<>>]

ConcurrentCalls ==
    {Invocation("calculate_all_ratios", SampleStatements),
     Invocation("calculate_all_ratios", LossStatements),
     Invocation("calculate_all_ratios", <<>>),
     Invocation("create_comparison_table",
         <<[key |-> CompanyKeys[1],
            data |-> CompanyData(PyList(SampleStatements), PyStr(<<"Samsung">>),
                                 PyStr(<<"2023">>))],
           [key |-> CompanyKeys[2],
            data |-> CompanyData(PyList(LossStatements), PyStr(<<"LG">>),
                                 PyStr(<<"2023">>))]>>),
     Invocation("create_comparison_table",
         <<[key |-> CompanyKeys[3],
            data |-> CompanyData(PyList(<<>>), PyStr(<<"LG">>), PyStr(<<"2022">>))]>>)}

InitConcurrent ==
    /\ account_mapping = AccountMapping
    /\ statements = <<>>
    /\ prev_statements = <<>>
    /\ companies_data = <<>>
    /\ call = NoCall
    /\ result = <<>>
    /\ threads \in [1..NumInvocations -> ConcurrentCalls]
    /\ cache = NoCache
    /\ now = 0
    /\ cache_writable = TRUE

\* df = self.extract_financial_data(statements), and the return of the
\* empty groups when df.empty
AllRatiosExtract(t) ==
    /\ threads[t].op = "calculate_all_ratios"
    /\ threads[t].pc = "start"
    /\ LET df == extract_financial_data(threads[t].arg)
       IN  threads' = [threads EXCEPT ![t] =
               IF DfEmpty(df)
               THEN [@ EXCEPT !.pc = "done",
                              !.ret = Returned([stability |-> <<>>,
                                                profitability |-> <<>>,
                                                activity |-> <<>>])]
               ELSE [@ EXCEPT !.pc = "stability", !.df = df]]
    /\ UNCHANGED <<clientVars, account_mapping, statements, prev_statements, companies_data,
                   call, result>>

\* 'stability': self.calculate_stability_ratios(df)
AllRatiosStability(t) ==
    /\ threads[t].op = "calculate_all_ratios"
    /\ threads[t].pc = "stability"
    /\ threads' = [threads EXCEPT ![t] =
           [@ EXCEPT !.pc = "profitability",
                     !.stability = calculate_stability_ratios(threads[t].df)]]
    /\ UNCHANGED <<clientVars, account_mapping, statements, prev_statements, companies_data,
                   call, result>>

\* 'profitability': self.calculate_profitability_ratios(df)
AllRatiosProfitability(t) ==
    /\ threads[t].op = "calculate_all_ratios"
    /\ threads[t].pc = "profitability"
    /\ threads' = [threads EXCEPT ![t] =
           [@ EXCEPT !.pc = "activity",
                     !.profitability = calculate_profitability_ratios(threads[t].df)]]
    /\ UNCHANGED <<clientVars, account_mapping, statements, prev_statements, companies_data,
                   call, result>>

\* 'activity': self.calculate_activity_ratios(df), and the return of the
\* three groups
AllRatiosActivity(t) ==
    /\ threads[t].op = "calculate_all_ratios"
    /\ threads[t].pc = "activity"
    /\ LET s == threads[t].stability
           p == threads[t].profitability
           a == calculate_activity_ratios(threads[t].df)
       IN  threads' = [threads EXCEPT ![t] =
               [@ EXCEPT !.pc = "done",
                         !.ret = IF s.raised \/ p.raised \/ a.raised
                                 THEN RaisedKeyError
                                 ELSE Returned([stability |-> s.ratios,
                                                profitability |-> p.ratios,
                                                activity |-> a.ratios])]]
    /\ UNCHANGED <<clientVars, account_mapping, statements, prev_statements, companies_data,
                   call, result>>

\* One turn of the loop of create_comparison_table: the row of the next key.
ComparisonAppendRow(t) ==
    /\ threads[t].op = "create_comparison_table"
    /\ threads[t].pc = "start"
    /\ Len(threads[t].comparison_data) < Len(threads[t].arg)
    /\ threads' = [threads EXCEPT ![t] =
           [@ EXCEPT !.comparison_data =
               Append(@, ComparisonRow(
                   threads[t].arg[Len(threads[t].comparison_data) + 1].data))]]
    /\ UNCHANGED <<clientVars, account_mapping, statements, prev_statements, companies_data,
                   call, result>>

\* return pd.DataFrame(comparison_data)
ComparisonReturn(t) ==
    /\ threads[t].op = "create_comparison_table"
    /\ threads[t].pc = "start"
    /\ Len(threads[t].comparison_data) = Len(threads[t].arg)
    /\ threads' = [threads EXCEPT ![t] =
           [@ EXCEPT !.pc = "done",
                     !.ret = ComparisonFrame(threads[t].comparison_data)]]
    /\ UNCHANGED <<clientVars, account_mapping, statements, prev_statements, companies_data,
                   call, result>>

\* A variant of the step of an invocation in which calculate_all_ratios
\* keeps its table in an attribute of the instance (held in result), not in
\* a local variable.
StepSharedFrame(t) ==
    \/ /\ threads[t].op = "calculate_all_ratios"
       /\ threads[t].pc = "start"
       /\ LET df == extract_financial_data(threads[t].arg)
          IN  /\ result' = df
              /\ threads' = [threads EXCEPT ![t] =
                     IF DfEmpty(df)
                     THEN [@ EXCEPT !.pc = "done",
                                    !.ret = Returned([stability |-> <<>>,
                                                      profitability |-> <<>>,
                                                      activity |-> <<>>])]
                     ELSE [@ EXCEPT !.pc = "stability"]]
       /\ UNCHANGED <<clientVars, account_mapping, statements, prev_statements,
                      companies_data, call>>
    \/ /\ threads[t].op = "calculate_all_ratios"
       /\ threads[t].pc = "stability"
       /\ threads' = [threads EXCEPT ![t] =
              [@ EXCEPT !.pc = "profitability",
                        !.stability = calculate_stability_ratios(result)]]
       /\ UNCHANGED <<clientVars, account_mapping, statements, prev_statements,
                      companies_data, call, result>>
    \/ /\ threads[t].op = "calculate_all_ratios"
       /\ threads[t].pc = "profitability"
       /\ threads' = [threads EXCEPT ![t] =
              [@ EXCEPT !.pc = "activity",
                        !.profitability = calculate_profitability_ratios(result)]]
       /\ UNCHANGED <<clientVars, account_mapping, statements, prev_statements,
                      companies_data, call, result>>
    \/ /\ threads[t].op = "calculate_all_ratios"
       /\ threads[t].pc = "activity"
       /\ LET s == threads[t].stability
              p == threads[t].profitability
              a == calculate_activity_ratios(result)
          IN  threads' = [threads EXCEPT ![t] =
                  [@ EXCEPT !.pc = "done",
                            !.ret = IF s.raised \/ p.raised \/ a.raised
                                    THEN RaisedKeyError
                                    ELSE Returned([stability |-> s.ratios,
                                                   profitability |-> p.ratios,
                                                   activity |-> a.ratios])]]
       /\ UNCHANGED <<clientVars, account_mapping, statements, prev_statements,
                      companies_data, call, result>>
    \/ ComparisonAppendRow(t)
    \/ ComparisonReturn(t)

Step(t) ==
    \/ AllRatiosExtract(t)
    \/ AllRatiosStability(t)
    \/ AllRatiosProfitability(t)
    \/ AllRatiosActivity(t)
    \/ ComparisonAppendRow(t)
    \/ ComparisonReturn(t)

NextConcurrent == \E t \in DOMAIN threads : Step(t)

SpecConcurrent == InitConcurrent /\ [][NextConcurrent]_vars

(***************************************************************************)
(* The data-fetch client at work.  The cache directory may hold files of   *)
(* an earlier process, one of them cut short; when the directory could not *)
(* be made it holds none and cannot be written.  call holds the last call  *)
(* with the file and the time it met, result what it returned or raised.   *)
(***************************************************************************)
TimeSteps == {cache_ttl \div 2, cache_ttl \div 2 - 1}

InitialFiles ==
    {NoFile, File(0, JsonText(StatementsData("v1"))), File(0, PartialText)}

ClientCall(op, cache_key, upstream, requested) ==
    [op |-> op, cache_key |-> cache_key, file |-> cache[cache_key], at |-> now,
     upstream |-> upstream, requested |-> requested]

InitClient ==
    /\ account_mapping = AccountMapping
    /\ statements = <<>>
    /\ prev_statements = <<>>
    /\ companies_data = <<>>
    /\ threads = <<>>
    /\ call = NoCall
    /\ result = <<>>
    /\ now = 0
    /\ cache_writable \in BOOLEAN
    /\ cache \in [CacheKeys -> InitialFiles]
    /\ ~cache_writable => cache = NoCache

LoadFromCache ==
    \E cache_key \in CacheKeys :
        /\ call' = ClientCall("_load_from_cache", cache_key, <<>>, FALSE)
        /\ result' = load_from_cache(cache, cache_key, now)
        /\ UNCHANGED <<account_mapping, statements, prev_statements,
                       companies_data, threads, clientVars>>

GetFinancialStatements ==
    \E cache_key \in CacheKeys, upstream \in UpstreamOutcomes :
        LET r == get_financial_statements(cache, cache_key, now, cache_writable,
                                          upstream)
        IN  /\ call' = ClientCall("get_financial_statements", cache_key,
                                  IF r.requested THEN upstream ELSE <<>>,
                                  r.requested)
            /\ result' = r.ret
            /\ cache' = r.files
            /\ UNCHANGED <<account_mapping, statements, prev_statements,
                           companies_data, threads, now, cache_writable>>

\* datetime.now() moves on.
AdvanceClock ==
    \E d \in TimeSteps :
        /\ now + d <= MaxTime
        /\ now' = now + d
        /\ UNCHANGED <<account_mapping, statements, prev_statements,
                       companies_data, threads, call, result, cache,
                       cache_writable>>

NextClient ==
    \/ LoadFromCache
    \/ GetFinancialStatements
    \/ AdvanceClock

SpecClient == InitClient /\ [][NextClient]_vars

(***************************************************************************)
(* The request layer at work: call holds the last request and result the   *)
(* response to it.                                                         *)
(***************************************************************************)
Items(n) == [i \in 1..n |-> i]

CompanyCounts == {1, 2, max_companies_per_request, max_companies_per_request + 1}

YearCounts == {1, max_years_per_request, max_years_per_request + 1}

Availabilities == {"all", "first", "none"}

\* A field of the JSON body of a request: absent, or a value.
JsonField(value) == [present |-> TRUE, value |-> value]

AbsentList == [present |-> FALSE, value |-> <<>>]

AbsentText == [present |-> FALSE, value |-> ""]

ComparisonRequests ==
    {[companies |-> c, years |-> y, fs_div |-> f] :
        c \in {AbsentList, JsonField(<<>>)} \cup {JsonField(Items(n)) : n \in CompanyCounts},
        y \in {AbsentList, JsonField(<<>>)} \cup {JsonField(Items(m)) : m \in YearCounts},
        f \in {AbsentText, JsonField("CFS"), JsonField("OFS"), JsonField("ALL")}}

ApiCall(op, request, available) ==
    [op |-> op, request |-> request, available |-> available]

InitApi ==
    /\ account_mapping = AccountMapping
    /\ statements = <<>>
    /\ prev_statements = <<>>
    /\ companies_data = <<>>
    /\ threads = <<>>
    /\ call = NoCall
    /\ result = <<>>
    /\ cache = NoCache
    /\ now = 0
    /\ cache_writable = TRUE

StatementsEndpoint ==
    \E n \in CompanyCounts, m \in YearCounts, available \in Availabilities :
        /\ call' = ApiCall("GET /api/financial/statements",
                           [corp_codes |-> Items(n), years |-> Items(m)], available)
        /\ result' = api_get_financial_statements(Items(n), Items(m), available)
        /\ UNCHANGED <<account_mapping, statements, prev_statements,
                       companies_data, threads, clientVars>>

RatiosEndpoint ==
    \E n \in CompanyCounts, m \in YearCounts, available \in Availabilities :
        /\ call' = ApiCall("GET /api/financial/ratios",
                           [corp_codes |-> Items(n), years |-> Items(m)], available)
        /\ result' = api_calculate_financial_ratios(Items(n), Items(m), available)
        /\ UNCHANGED <<account_mapping, statements, prev_statements,
                       companies_data, threads, clientVars>>

ComparisonEndpoint ==
    \E request_data \in ComparisonRequests, available \in Availabilities :
        /\ call' = ApiCall("POST /api/financial/comparison", request_data, available)
        /\ result' = api_create_comparison(request_data, available)
        /\ UNCHANGED <<account_mapping, statements, prev_statements,
                       companies_data, threads, clientVars>>

NextApi ==
    \/ StatementsEndpoint
    \/ RatiosEndpoint
    \/ ComparisonEndpoint

SpecApi == InitApi /\ [][NextApi]_vars

(***************************************************************************)
(* Properties.                                                             *)
(***************************************************************************)
\* The table the last call worked on, and the current-period amount a metric
\* resolves to in it.
Table == extract_financial_data(statements)

PrevTable == extract_financial_data(prev_statements)

Resolved(name) == get_account_value(Table, AccountMapping[name], "thstrm_amount")

PrevResolved(name) ==
    get_account_value(PrevTable, AccountMapping[name], "thstrm_amount")

IsZero(x) == x = Fin(0)

\* r is num / den * scale to two decimals: within half a hundredth of the
\* exact quotient when both are finite, and the IEEE quotient otherwise.
IsQuotient2(r, num, den, scale) ==
    CASE num.k = "fin" /\ den.k = "fin" ->
            r.k = "fin" /\ 2 * Abs(r.v * den.v - num.v * scale * 100) <= den.v
      [] num.k = "fin" /\ den.k = "inf" -> r = Fin(0)
      [] num.k = "inf" /\ den.k = "fin" -> r = num
      [] OTHER -> r = NaN

Returns(op) == call.op = op /\ ~result.raised

\* C1: a stability, profitability or activity ratio whose denominator
\* (current_liabilities, total_equity, total_assets or revenue) resolves to 0
\* is returned as 0: nothing is raised and the value is no infinity or NaN.
C1_ZeroDenominatorGivesZero ==
    /\ call.op = "calculate_stability_ratios" =>
          /\ IsZero(Resolved("current_liabilities")) =>
                Returns(call.op) /\ result.ratios.current_ratio = Fin(0)
          /\ IsZero(Resolved("total_equity")) =>
                Returns(call.op) /\ result.ratios.debt_to_equity = Fin(0)
          /\ IsZero(Resolved("total_assets")) =>
                Returns(call.op) /\ result.ratios.equity_ratio = Fin(0)
    /\ call.op = "calculate_profitability_ratios" =>
          /\ IsZero(Resolved("revenue")) =>
                /\ Returns(call.op)
                /\ result.ratios.gross_margin = Fin(0)
                /\ result.ratios.operating_margin = Fin(0)
                /\ result.ratios.net_margin = Fin(0)
          /\ IsZero(Resolved("total_assets")) =>
                Returns(call.op) /\ result.ratios.roa = Fin(0)
          /\ IsZero(Resolved("total_equity")) =>
                Returns(call.op) /\ result.ratios.roe = Fin(0)
    /\ call.op = "calculate_activity_ratios" =>
          (IsZero(Resolved("total_assets")) =>
                Returns(call.op) /\ result.ratios.asset_turnover = Fin(0))

\* current_assets = 1000 over current_liabilities = 0 was answered with 0.
C1_Witness ==
    /\ call.op = "calculate_stability_ratios"
    /\ Resolved("current_assets") = Fin(1000)
    /\ Resolved("current_liabilities") = Fin(0)
    /\ result.ratios.current_ratio = Fin(0)

\* C2: with current_liabilities, total_equity and total_assets positive,
\* calculate_stability_ratios returns exactly current_ratio, debt_to_equity
\* and equity_ratio, each the quotient of the current-period amounts times
\* 100 to two decimals.
C2_StabilityRatios ==
    ( /\ call.op = "calculate_stability_ratios"
      /\ GtZero(Resolved("current_liabilities"))
      /\ GtZero(Resolved("total_equity"))
      /\ GtZero(Resolved("total_assets")) ) =>
        /\ ~result.raised
        /\ DOMAIN result.ratios = {"current_ratio", "debt_to_equity", "equity_ratio"}
        /\ IsQuotient2(result.ratios.current_ratio, Resolved("current_assets"),
                       Resolved("current_liabilities"), 100)
        /\ IsQuotient2(result.ratios.debt_to_equity, Resolved("total_liabilities"),
                       Resolved("total_equity"), 100)
        /\ IsQuotient2(result.ratios.equity_ratio, Resolved("total_equity"),
                       Resolved("total_assets"), 100)

\* 1000/500 gave 200.0, 800/1200 gave 66.67 and 1200/2000 gave 60.0.
C2_Witness ==
    /\ call.op = "calculate_stability_ratios"
    /\ Resolved("current_assets") = Fin(1000)
    /\ Resolved("current_liabilities") = Fin(500)
    /\ Resolved("total_liabilities") = Fin(800)
    /\ Resolved("total_equity") = Fin(1200)
    /\ Resolved("total_assets") = Fin(2000)
    /\ result.ratios.current_ratio = Fin(20000)
    /\ result.ratios.debt_to_equity = Fin(6667)
    /\ result.ratios.equity_ratio = Fin(6000)

\* A quotient of a negative numerator is not positive, and is negative when
\* it is at least half a hundredth away from 0.
KeepsSign(r, num, den, scale) ==
    (num.k = "fin" /\ den.k = "fin" /\ num.v < 0) =>
        /\ r.v <= 0
        /\ (2 * Abs(num.v) * scale * 100 > den.v => r.v < 0)

\* C3: with revenue, total_assets and total_equity positive,
\* calculate_profitability_ratios returns the three margins over revenue, roa
\* over total_assets and roe over total_equity, times 100 to two decimals; a
\* negative numerator gives a negative ratio.
C3_ProfitabilityRatios ==
    ( /\ call.op = "calculate_profitability_ratios"
      /\ GtZero(Resolved("revenue"))
      /\ GtZero(Resolved("total_assets"))
      /\ GtZero(Resolved("total_equity")) ) =>
        /\ ~result.raised
        /\ DOMAIN result.ratios =
              {"gross_margin", "operating_margin", "net_margin", "roa", "roe"}
        /\ IsQuotient2(result.ratios.gross_margin, Resolved("gross_profit"),
                       Resolved("revenue"), 100)
        /\ IsQuotient2(result.ratios.operating_margin, Resolved("operating_profit"),
                       Resolved("revenue"), 100)
        /\ IsQuotient2(result.ratios.net_margin, Resolved("net_income"),
                       Resolved("revenue"), 100)
        /\ IsQuotient2(result.ratios.roa, Resolved("net_income"),
                       Resolved("total_assets"), 100)
        /\ IsQuotient2(result.ratios.roe, Resolved("net_income"),
                       Resolved("total_equity"), 100)
        /\ KeepsSign(result.ratios.gross_margin, Resolved("gross_profit"),
                     Resolved("revenue"), 100)
        /\ KeepsSign(result.ratios.operating_margin, Resolved("operating_profit"),
                     Resolved("revenue"), 100)
        /\ KeepsSign(result.ratios.net_margin, Resolved("net_income"),
                     Resolved("revenue"), 100)
        /\ KeepsSign(result.ratios.roa, Resolved("net_income"),
                     Resolved("total_assets"), 100)
        /\ KeepsSign(result.ratios.roe, Resolved("net_income"),
                     Resolved("total_equity"), 100)

\* revenue 1500, operating_profit 150, total_assets 2000, total_equity 1200
\* and a net loss of 77: operating_margin 10.0, net_margin -5.13, roa -3.85,
\* roe -6.42.
C3_Witness ==
    /\ call.op = "calculate_profitability_ratios"
    /\ Resolved("revenue") = Fin(1500)
    /\ Resolved("operating_profit") = Fin(150)
    /\ Resolved("net_income") = Fin(-77)
    /\ Resolved("total_assets") = Fin(2000)
    /\ Resolved("total_equity") = Fin(1200)
    /\ result.ratios.operating_margin = Fin(1000)
    /\ result.ratios.net_margin = Fin(-513)
    /\ result.ratios.roa = Fin(-385)
    /\ result.ratios.roe = Fin(-642)

\* C4: with total_assets positive, calculate_activity_ratios returns
\* asset_turnover = revenue / total_assets to two decimals, not times 100.
C4_AssetTurnover ==
    (call.op = "calculate_activity_ratios" /\ GtZero(Resolved("total_assets"))) =>
        /\ ~result.raised
        /\ DOMAIN result.ratios = {"asset_turnover"}
        /\ IsQuotient2(result.ratios.asset_turnover, Resolved("revenue"),
                       Resolved("total_assets"), 1)

\* 1500/2000 gave 0.75.
C4_Witness ==
    /\ call.op = "calculate_activity_ratios"
    /\ Resolved("revenue") = Fin(1500)
    /\ Resolved("total_assets") = Fin(2000)
    /\ result.ratios.asset_turnover = Fin(75)

\* The growth of one metric: the rounded quotient when the previous value is
\* positive, 0 when it is zero or negative.
IsGrowth(r, current, previous) ==
    IF GtZero(previous)
    THEN (current.k = "fin" /\ previous.k = "fin") =>
            IsQuotient2(r, Fin(current.v - previous.v), previous, 100)
    ELSE r = Fin(0)

\* C5: for revenue, net_income and total_assets resolved in both tables,
\* calculate_growth_rates returns (current - previous) / previous * 100 to
\* two decimals when the previous value is positive and 0 when it is zero or
\* negative, each metric decided on its own previous value.
C5_GrowthRates ==
    ( /\ call.op = "calculate_growth_rates"
      /\ ~DfEmpty(Table)
      /\ ~DfEmpty(PrevTable) ) =>
        /\ ~result.raised
        /\ DOMAIN result.ratios = {"revenue_growth", "net_income_growth", "asset_growth"}
        /\ IsGrowth(result.ratios.revenue_growth, Resolved("revenue"),
                    PrevResolved("revenue"))
        /\ IsGrowth(result.ratios.net_income_growth, Resolved("net_income"),
                    PrevResolved("net_income"))
        /\ IsGrowth(result.ratios.asset_growth, Resolved("total_assets"),
                    PrevResolved("total_assets"))

\* Revenue grew from 1350 to 1500 (11.11), net income has a previous value
\* of -9 and total assets one of 0: both growth rates are 0 although the
\* current values are not.
C5_Witness ==
    /\ call.op = "calculate_growth_rates"
    /\ Resolved("revenue") = Fin(1500) /\ PrevResolved("revenue") = Fin(1350)
    /\ Resolved("net_income") = Fin(120) /\ PrevResolved("net_income") = Fin(-9)
    /\ Resolved("total_assets") = Fin(2000) /\ PrevResolved("total_assets") = Fin(0)
    /\ result.ratios.revenue_growth = Fin(1111)
    /\ result.ratios.net_income_growth = Fin(0)
    /\ result.ratios.asset_growth = Fin(0)

\* A string of digits grouped in thousands by commas ("1,234,567", "500"):
\* counted from the right, every fourth character is a comma and the others
\* are digits.
IsGroupedDigits(s) ==
    /\ Len(s) > 0
    /\ s[1] \in Digits
    /\ \A i \in 1..Len(s) :
          IF (Len(s) - i + 1) % 4 = 0 THEN s[i] = "," ELSE s[i] \in Digits

\* The number such a string denotes, read digit by digit from the left.
RECURSIVE Denoted(_, _)
Denoted(s, acc) ==
    IF Len(s) = 0 THEN acc
    ELSE IF s[1] = "," THEN Denoted(Tail(s), acc)
    ELSE Denoted(Tail(s), 10 * acc + DigitVal(s[1]))

Extracted == call.op = "extract_financial_data" /\ Len(statements) > 0

\* C6: in each of the three period columns, an amount given as digits with
\* thousands-separator commas is normalised to the number it denotes and an
\* amount given as a number keeps its value.
C6_AmountsNormalised ==
    Extracted =>
        \A i \in 1..Len(statements) : \A c \in Periods :
            LET raw == statements[i][c]
            IN  /\ raw.t = "int" => result.rows[i][c] = Fin(raw.n)
                /\ (raw.t = "str" /\ IsGroupedDigits(raw.s)) =>
                      result.rows[i][c] = Fin(Denoted(raw.s, 0))

\* A record with the number -25, "1,000" and "1,234,567" in its three
\* period columns, next to a record that has no current amount.
C6_Witness ==
    /\ Extracted
    /\ Len(statements) = 2
    /\ statements[1].thstrm_amount = PyInt(-25)
    /\ statements[1].bfefrmtrm_amount = PyStr(<<"1", ",", "2", "3", "4", ",", "5", "6", "7">>)
    /\ statements[2].thstrm_amount = Absent
    /\ result.rows[1].thstrm_amount = Fin(-25)
    /\ result.rows[1].frmtrm_amount = Fin(1000)
    /\ result.rows[1].bfefrmtrm_amount = Fin(1234567)

\* Text that is no amount: not a signed decimal with optional commas, and not
\* the name of an infinity, which is a float literal.
IsAmountText(s) ==
    LET body == IF Len(s) > 0 /\ s[1] \in {"+", "-"} THEN Tail(s) ELSE s
    IN  /\ Len(body) > 0
        /\ \E i \in 1..Len(body) : body[i] \in Digits
        /\ \A i \in 1..Len(body) : body[i] \in Digits \cup {","}

IsInfinityText(s) ==
    LET body == IF Len(s) > 0 /\ s[1] \in {"+", "-"} THEN Tail(s) ELSE s
    IN  LowerText(body) \in InfTokens

IsMalformed(raw) ==
    \/ raw.t \in {"absent", "None"}
    \/ raw.t = "str" /\ ~IsAmountText(raw.s) /\ ~IsInfinityText(raw.s)

\* C7: for a non-empty list the normaliser returns a table with one row per
\* record in which every amount that was malformed text, null or absent is
\* 0.0, also in a period column that no record has.
C7_MalformedGivesZero ==
    Extracted =>
        /\ Periods \subseteq result.columns
        /\ Len(result.rows) = Len(statements)
        /\ \A i \in 1..Len(statements) : \A c \in Periods :
              IsMalformed(statements[i][c]) => result.rows[i][c] = Fin(0)

\* A list of one record that has no current amount at all, "N/A" in the
\* period before and null in the third: the table has the three columns,
\* each 0.0.
C7_Witness ==
    /\ Extracted
    /\ statements = <<RawRecord(CashFlowId, Absent, PyStr(<<"N", "/", "A">>), PyNone)>>
    /\ result.rows[1].thstrm_amount = Fin(0)
    /\ result.rows[1].frmtrm_amount = Fin(0)
    /\ result.rows[1].bfefrmtrm_amount = Fin(0)

\* C8: every amount of every row of a table the normaliser returns is a
\* finite number.
C8_AmountsFinite ==
    Extracted =>
        \A i \in 1..Len(result.rows) : \A c \in Periods :
            IsFinite(result.rows[i][c])

GotAccountValue == call.op = "get_account_value"

NoAliasMatches ==
    LET rows == Table.rows
    IN  \A k \in 1..Len(call.account_ids) : \A j \in 1..Len(rows) :
            ~MaskAt(rows[j], call.account_ids[k])

\* C9: on every table the normaliser returns, the table of the empty list
\* included, get_account_value returns 0.0 when the alias list is empty and
\* when no alias is the account id of a row.
C9_UnmatchedGivesZero ==
    (GotAccountValue /\ NoAliasMatches) => result = Fin(0)

AliasMatches(rows, k) ==
    \E j \in 1..Len(rows) : MaskAt(rows[j], call.account_ids[k])

\* C10: when rows match several aliases of the list, get_account_value
\* returns the amount of a row matching the earliest such alias, wherever the
\* rows stand in the table and whatever that amount is.
C10_EarlierAliasWins ==
    GotAccountValue =>
        LET rows == Table.rows
        IN  \A k \in 1..Len(call.account_ids) :
                (AliasMatches(rows, k) /\ \A h \in 1..(k - 1) : ~AliasMatches(rows, h)) =>
                    \E j \in 1..Len(rows) :
                        /\ MaskAt(rows[j], call.account_ids[k])
                        /\ result = rows[j][call.period]

\* The row of the second alias (7) stands before the row of the first (0):
\* the first alias's 0 is returned.
C10_Witness ==
    /\ GotAccountValue
    /\ call.account_ids = AccountMapping["total_assets"]
    /\ call.period = "thstrm_amount"
    /\ Len(statements) = 2
    /\ statements[1].account_id = PyStr(<<"ifrs_Assets">>)
    /\ statements[1].thstrm_amount = Amt(7)
    /\ statements[2].account_id = PyStr(<<"ifrs-full_Assets">>)
    /\ statements[2].thstrm_amount = Amt(0)
    /\ result = Fin(0)

\* The id cell is the alias between two runs of whitespace, and nothing else.
IdIsAlias(cell, alias) ==
    /\ cell.t = "str"
    /\ \E a \in 0..Len(cell.s) :
           LET b == Len(cell.s) - Len(alias) - a
           IN  /\ b >= 0
               /\ \A h \in 1..a : cell.s[h] \in {" ", "\t", "\n"}
               /\ \A h \in (Len(cell.s) - b + 1)..Len(cell.s) :
                      cell.s[h] \in {" ", "\t", "\n"}
               /\ \A h \in 1..Len(alias) : cell.s[a + h] = alias[h]

RowsOfAlias(rows, alias) ==
    {j \in 1..Len(rows) : IdIsAlias(rows[j].account_id, alias)}

\* C11: the rows get_account_value takes for an alias are those whose account
\* id, surrounding whitespace removed, is the alias to the letter (an id of
\* another case, or one that only contains the alias, is not taken); of
\* several rows of the first alias that has any, the amount returned is the
\* requested period's amount of the first in table order.
C11_StrippedIdFirstRow ==
    GotAccountValue =>
        LET rows == Table.rows
        IN  \A k \in 1..Len(call.account_ids) :
                (/\ RowsOfAlias(rows, call.account_ids[k]) # {}
                 /\ \A h \in 1..(k - 1) : RowsOfAlias(rows, call.account_ids[h]) = {}) =>
                    \E j \in RowsOfAlias(rows, call.account_ids[k]) :
                        /\ \A h \in RowsOfAlias(rows, call.account_ids[k]) : j <= h
                        /\ result = rows[j][call.period]

\* A padded id stands before the bare one: the padded row's previous-period
\* amount (4) is returned, not the bare row's (1).
C11_Witness ==
    /\ GotAccountValue
    /\ call.account_ids = AccountMapping["total_assets"]
    /\ call.period = "frmtrm_amount"
    /\ Len(statements) = 2
    /\ statements[1].account_id = PyStr(<<" ", "ifrs-full_Assets", " ">>)
    /\ statements[2].account_id = PyStr(<<"ifrs-full_Assets">>)
    /\ statements[2].frmtrm_amount = Amt(1)
    /\ result = Fin(4)

StabilityKeys == {"current_ratio", "debt_to_equity", "equity_ratio"}

ProfitabilityKeys == {"gross_margin", "operating_margin", "net_margin", "roa", "roe"}

ActivityKeys == {"asset_turnover"}

\* C12: calculate_all_ratios returns three groups, stability, profitability
\* and activity.  For the empty list each group is empty; for any other list
\* the groups hold the three stability keys, the five profitability keys and
\* the one activity key, whether or not the accounts they need are in the
\* list.
C12_AllRatiosGroups ==
    call.op = "calculate_all_ratios" =>
        /\ ~result.raised
        /\ DOMAIN result.ratios = {"stability", "profitability", "activity"}
        /\ IF statements = <<>>
           THEN /\ DOMAIN result.ratios.stability = {}
                /\ DOMAIN result.ratios.profitability = {}
                /\ DOMAIN result.ratios.activity = {}
           ELSE /\ DOMAIN result.ratios.stability = StabilityKeys
                /\ DOMAIN result.ratios.profitability = ProfitabilityKeys
                /\ DOMAIN result.ratios.activity = ActivityKeys

\* A list whose only line item is a cash flow: none of the accounts of the
\* nine ratios is in it, and the nine keys are there, each 0.
C12_Witness ==
    /\ call.op = "calculate_all_ratios"
    /\ Len(statements) = 1
    /\ statements[1].account_id = CashFlowId
    /\ ~result.raised
    /\ \A key \in StabilityKeys : result.ratios.stability[key] = Fin(0)
    /\ \A key \in ProfitabilityKeys : result.ratios.profitability[key] = Fin(0)
    /\ result.ratios.activity.asset_turnover = Fin(0)

GotComparisonTable == call.op = "create_comparison_table"

\* The line items of an entity: none when it has no list.
StatementsOf(data) ==
    IF data.statements.t = "list" THEN data.statements.s ELSE <<>>

\* The text of a field of an entity: empty when the field is absent.
TextOf(field) == IF field.t = "absent" THEN PyStr(<<>>) ELSE field

RatioColumns ==
    {"current_ratio", "debt_to_equity", "equity_ratio", "roe", "roa",
     "operating_margin", "net_margin", "asset_turnover"}

\* The group of calculate_all_ratios a ratio column is read from.
GroupOf(column) ==
    CASE column \in StabilityKeys -> "stability"
      [] column \in ProfitabilityKeys -> "profitability"
      [] OTHER -> "activity"

\* C13: create_comparison_table returns one row per key of the map, in the
\* order of insertion, rows of equal name and year included: row i carries
\* the name, the year and the ratios of the list of the i-th key.
C13_OneRowPerKey ==
    GotComparisonTable =>
        /\ ~result.raised
        /\ Len(result.table.rows) = Len(companies_data)
        /\ \A i \in 1..Len(companies_data) :
              LET data == companies_data[i].data
                  row == result.table.rows[i]
                  ratios == calculate_all_ratios(StatementsOf(data)).ratios
              IN  /\ row.company_name = TextOf(data.company_name)
                  /\ row.year = TextOf(data.year)
                  /\ StatementsOf(data) # <<>> =>
                        \A c \in RatioColumns : row[c] = ratios[GroupOf(c)][c]

\* Two keys hold the same company, year and line items: two equal rows.
C13_Witness ==
    /\ GotComparisonTable
    /\ Len(companies_data) = 2
    /\ companies_data[1].key # companies_data[2].key
    /\ companies_data[1].data = companies_data[2].data
    /\ companies_data[1].data.statements = PyList(SampleStatements)
    /\ Len(result.table.rows) = 2
    /\ result.table.rows[1] = result.table.rows[2]
    /\ result.table.rows[2].current_ratio = Fin(20000)
    /\ result.table.rows[2].debt_to_equity = Fin(6667)

ComparisonColumns == {"company_name", "year"} \cup RatioColumns

\* C14: every row of the comparison table has the ten columns: name, year
\* and the eight ratios.  An entity whose list is empty or absent has its row
\* all the same, the eight ratios 0; a name or year that is absent is the
\* empty string.
C14_FixedColumns ==
    GotComparisonTable =>
        /\ ~result.raised
        /\ \A j \in 1..Len(result.table.rows) :
              DOMAIN result.table.rows[j] = ComparisonColumns
        /\ \A i \in 1..Len(companies_data) :
              LET data == companies_data[i].data
              IN  /\ i <= Len(result.table.rows)
                  /\ StatementsOf(data) = <<>> =>
                        \A c \in RatioColumns : result.table.rows[i][c] = Fin(0)
                  /\ data.company_name = Absent =>
                        result.table.rows[i].company_name = PyStr(<<>>)
                  /\ data.year = Absent =>
                        result.table.rows[i].year = PyStr(<<>>)

\* An entity with no field at all after one with line items: its row is the
\* second, with empty name and year and eight zeros.
C14_Witness ==
    /\ GotComparisonTable
    /\ Len(companies_data) = 2
    /\ companies_data[1].data.statements = PyList(SampleStatements)
    /\ companies_data[2].data = CompanyData(Absent, Absent, Absent)
    /\ Len(result.table.rows) = 2
    /\ result.table.rows[2].company_name = PyStr(<<>>)
    /\ result.table.rows[2].year = PyStr(<<>>)
    /\ \A c \in RatioColumns : result.table.rows[2][c] = Fin(0)

\* C15 as stated: no row of the comparison table has more than nine columns.
C15_AtMostNineColumns ==
    GotComparisonTable =>
        \A j \in 1..Len(result.table.rows) :
            Cardinality(DOMAIN result.table.rows[j]) <= 9

\* C15, amended: no row of the comparison table has more than ten columns,
\* the name, the year and eight ratios.
C15_AtMostTenColumns ==
    GotComparisonTable =>
        \A j \in 1..Len(result.table.rows) :
            Cardinality(DOMAIN result.table.rows[j]) <= 10

\* A table with a row, which has ten columns.
C15_Witness ==
    /\ GotComparisonTable
    /\ Len(result.table.rows) = 1
    /\ Cardinality(DOMAIN result.table.rows[1]) = 10

GrowthKeys == {"revenue_growth", "net_income_growth", "asset_growth"}

\* C16: no operation raises for want of a metric or of input.  For every
\* pair of lists normalised by extract_financial_data, an empty current or
\* previous list included, calculate_growth_rates returns the three growth
\* keys, 0 where the previous value is not there; and a record without
\* account_id is kept as a row that no alias matches.
C16_AbsenceNeverRaises ==
    /\ call.op = "calculate_growth_rates" =>
          /\ ~result.raised
          /\ DOMAIN result.ratios = GrowthKeys
          /\ prev_statements = <<>> =>
                \A key \in GrowthKeys : result.ratios[key] = Fin(0)
    /\ Extracted =>
          /\ Len(result.rows) = Len(statements)
          /\ \A i \in 1..Len(statements) :
                statements[i].account_id = Absent =>
                    \A name \in DOMAIN AccountMapping :
                        \A k \in 1..Len(AccountMapping[name]) :
                            ~MaskAt(result.rows[i], AccountMapping[name][k])

LookedUp == call.op = "account_mapping"

\* C17: looking up a canonical name the registry does not hold returns the
\* empty alias list; nothing is raised.
C17_UnknownNameGivesEmptyList ==
    (LookedUp /\ call.name \notin DOMAIN AccountMapping) => result = <<>>

RegistryNames ==
    {"current_assets", "total_assets", "current_liabilities", "total_liabilities",
     "total_equity", "revenue", "cost_of_sales", "gross_profit", "operating_profit",
     "net_income", "operating_cash_flow", "investing_cash_flow",
     "financing_cash_flow"}

\* C18: whatever operations have run on the calculator, the registry is the
\* one __init__ built: the 13 canonical names, each with a non-empty list of
\* aliases.
C18_RegistryUnchanged ==
    /\ account_mapping = AccountMapping
    /\ DOMAIN account_mapping = RegistryNames
    /\ Cardinality(DOMAIN account_mapping) = 13
    /\ \A name \in RegistryNames : Len(account_mapping[name]) > 0

\* The stability ratios have just been computed from a list with current
\* assets, and the aliases of current assets are the two of __init__.
C18_Witness ==
    /\ call.op = "calculate_stability_ratios"
    /\ ~result.raised
    /\ result.ratios.current_ratio = Fin(20000)
    /\ account_mapping["current_assets"] =
          << <<"ifrs-full_CurrentAssets">>, <<"ifrs_CurrentAssets">> >>

IsNegative(x) == x.k \in {"fin", "inf"} /\ x.v < 0

\* C20: a stability, profitability or activity ratio whose denominator
\* resolves to a negative number is returned as 0, as for a zero
\* denominator: the quotient by a negative denominator is never reported.
C20_NegativeDenominatorGivesZero ==
    /\ call.op = "calculate_stability_ratios" =>
          /\ IsNegative(Resolved("current_liabilities")) =>
                Returns(call.op) /\ result.ratios.current_ratio = Fin(0)
          /\ IsNegative(Resolved("total_equity")) =>
                Returns(call.op) /\ result.ratios.debt_to_equity = Fin(0)
          /\ IsNegative(Resolved("total_assets")) =>
                Returns(call.op) /\ result.ratios.equity_ratio = Fin(0)
    /\ call.op = "calculate_profitability_ratios" =>
          /\ IsNegative(Resolved("revenue")) =>
                /\ Returns(call.op)
                /\ result.ratios.gross_margin = Fin(0)
                /\ result.ratios.operating_margin = Fin(0)
                /\ result.ratios.net_margin = Fin(0)
          /\ IsNegative(Resolved("total_assets")) =>
                Returns(call.op) /\ result.ratios.roa = Fin(0)
          /\ IsNegative(Resolved("total_equity")) =>
                Returns(call.op) /\ result.ratios.roe = Fin(0)
    /\ call.op = "calculate_activity_ratios" =>
          (IsNegative(Resolved("total_assets")) =>
              Returns(call.op) /\ result.ratios.asset_turnover = Fin(0))

\* Liabilities of 800 over an equity of -600: the debt ratio is 0, not
\* -133.33, while the current ratio of the same list is 200.
C20_Witness ==
    /\ call.op = "calculate_stability_ratios"
    /\ Resolved("total_liabilities") = Fin(800)
    /\ Resolved("total_equity") = Fin(-600)
    /\ Resolved("current_assets") = Fin(1000)
    /\ Resolved("current_liabilities") = Fin(500)
    /\ ~result.raised
    /\ result.ratios.debt_to_equity = Fin(0)
    /\ result.ratios.current_ratio = Fin(20000)

\* What an invocation returns when it runs alone.
Alone(op, arg) ==
    IF op = "calculate_all_ratios" THEN calculate_all_ratios(arg)
    ELSE create_comparison_table(arg)

\* C19: of the invocations of calculate_all_ratios and create_comparison_table
\* that run concurrently on the instance, in whatever order their steps are
\* taken, each returns what it returns when it runs alone; the registry,
\* the only state they share, is never written.
C19_ConcurrentAsAlone ==
    /\ account_mapping = AccountMapping
    /\ \A t \in DOMAIN threads :
          threads[t].pc = "done" =>
              threads[t].ret = Alone(threads[t].op, threads[t].arg)

\* An invocation on the sample list has returned its ratios while one on the
\* loss list is between its stability and its activity ratios.
C19_Witness ==
    /\ DOMAIN threads = 1..NumInvocations
    /\ threads[1].op = "calculate_all_ratios"
    /\ threads[1].arg = SampleStatements
    /\ threads[1].pc = "done"
    /\ threads[1].ret.ratios.stability.current_ratio = Fin(20000)
    /\ threads[1].ret.ratios.profitability.net_margin = Fin(800)
    /\ threads[2].op = "calculate_all_ratios"
    /\ threads[2].arg = LossStatements
    /\ threads[2].pc = "profitability"

\* C21: for a non-empty list the normaliser returns one row per record, in
\* the order of the list; the rows of records whose account id is empty or
\* absent are among them, and an absent account id is the empty string in
\* its row.
C21_OneRowPerRecord ==
    Extracted =>
        /\ Len(result.rows) = Len(statements)
        /\ \A i \in 1..Len(statements) :
              /\ statements[i].account_id.t = "str" =>
                    result.rows[i].account_id = statements[i].account_id
              /\ statements[i].account_id = Absent =>
                    result.rows[i].account_id = PyStr(<<>>)

GotStatements == call.op = "get_financial_statements"

IsStatementsData(x) == "status" \in DOMAIN x /\ x.status = "000"

\* C22: whatever the upstream request comes to (a network error, an HTTP
\* error, a body that is no JSON, a status other than '000') and whatever the
\* cache holds (no file, a stale one, one that cannot be read to the end),
\* get_financial_statements returns the statement data or None: it raises
\* nothing into its caller.
C22_ReturnsDataOrNone ==
    GotStatements => (result = PyNone \/ IsStatementsData(result))

\* The age, at the call, of the file the call met.
AgeAtCall == call.at - call.file.mtime

\* C23: _load_from_cache returns an entry only while its age, the time of
\* the call less the time the file was last written, is below cache_ttl;
\* whatever was saved and loaded before, an entry of age cache_ttl or more is
\* not served: the load returns None, and get_financial_statements goes
\* upstream.
C23_StaleEntryNotServed ==
    /\ call.op = "_load_from_cache" =>
          /\ IsStatementsData(result) =>
                call.file.exists /\ AgeAtCall < cache_ttl
          /\ (call.file.exists /\ AgeAtCall >= cache_ttl) => result = PyNone
    /\ GotStatements =>
          ((call.file.exists /\ AgeAtCall >= cache_ttl) => call.requested)

\* A file written by get_financial_statements is loaded when its age is
\* cache_ttl to the second: a miss.
C23_Witness ==
    /\ call.op = "_load_from_cache"
    /\ call.file.exists
    /\ call.file.mtime > 0
    /\ call.file.content.kind = "json"
    /\ AgeAtCall = cache_ttl
    /\ result = PyNone

ReceivedStatements ==
    /\ GotStatements
    /\ call.requested
    /\ call.upstream.kind = "json"
    /\ call.upstream.body.status = "000"

\* C27: when the cache directory cannot be made or written, the client
\* works without a cache: get_financial_statements returns to its caller the
\* data of an upstream answer of status '000'.
C27_WorksWithoutCache ==
    (ReceivedStatements /\ ~cache_writable) => result = call.upstream.body

\* C28: with a cache that can be written, a call of get_financial_statements
\* that received status '000' returns the data and leaves it in the cache
\* file of its triple, and a call that meets the file of its triple within
\* cache_ttl of that write returns the data of the file and sends no request
\* upstream; a call whose request failed, or was answered with another
\* status, returns None and writes nothing, so that the next call goes
\* upstream again.
C28_CachedWithinTtl ==
    GotStatements =>
        /\ (ReceivedStatements /\ cache_writable) =>
              /\ result = call.upstream.body
              /\ cache[call.cache_key] = File(call.at, JsonText(call.upstream.body))
        /\ (/\ call.file.exists
            /\ call.file.content.kind = "json"
            /\ AgeAtCall < cache_ttl) =>
              /\ result = call.file.content.value
              /\ ~call.requested
              /\ cache[call.cache_key] = call.file
        /\ (call.requested /\ ~ReceivedStatements) =>
              /\ result = PyNone
              /\ cache[call.cache_key] = call.file

\* The file of a triple, written when "v2" was received, is met one second
\* short of cache_ttl later: "v2" is returned and no request is sent.
C28_Witness ==
    /\ GotStatements
    /\ call.file.exists
    /\ call.file.mtime > 0
    /\ call.file.content = JsonText(StatementsData("v2"))
    /\ AgeAtCall = cache_ttl - 1
    /\ ~call.requested
    /\ result = StatementsData("v2")

\* C29: the operations are functions of their arguments.  A call of
\* extract_financial_data, calculate_all_ratios or create_comparison_table,
\* like every other step, leaves the caller's lists, their records and the
\* entity map as they were, and what it returns is what the operation gives
\* for those arguments, whatever was called before.
C29_PureOperations ==
    [][/\ statements' = statements
       /\ prev_statements' = prev_statements
       /\ companies_data' = companies_data
       /\ call'.op = "extract_financial_data" =>
             result' = extract_financial_data(statements)
       /\ call'.op = "calculate_all_ratios" =>
             result' = calculate_all_ratios(statements)
       /\ call'.op = "create_comparison_table" =>
             result' = create_comparison_table(companies_data)]_vars

\* The table of a record with the amount "1,000" holds 1000, and the record
\* of the caller still holds "1,000".
C29_Witness ==
    /\ call.op = "extract_financial_data"
    /\ Len(statements) = 1
    /\ statements[1].thstrm_amount = PyStr(<<"1", ",", "0", "0", "0">>)
    /\ result.rows[1].thstrm_amount = Fin(1000)

AskedStatements == call.op = "GET /api/financial/statements"

\* C24: GET /api/financial/statements with more than 10 corp codes, or more
\* than 5 years, is answered 400 and no statement is fetched; with both
\* counts within the limits and data for no pair it is answered 404.
C24_StatementsLimits ==
    AskedStatements =>
        /\ (\/ Len(call.request.corp_codes) > 10
            \/ Len(call.request.years) > 5) =>
              result.status = 400 /\ result.fetches = 0
        /\ (/\ Len(call.request.corp_codes) <= 10
            /\ Len(call.request.years) <= 5
            /\ call.available = "none") =>
              result.status = 404

\* Ten companies and six years: 400, and nothing was fetched.
C24_Witness ==
    /\ AskedStatements
    /\ Len(call.request.corp_codes) = 10
    /\ Len(call.request.years) = 6
    /\ call.available = "all"
    /\ result.status = 400
    /\ result.fetches = 0

AskedComparison == call.op = "POST /api/financial/comparison"

IsEmptyOrAbsent(field) == ~field.present \/ field.value = <<>>

\* C25: POST /api/financial/comparison is answered 400, and no statement is
\* fetched, when the companies or the years are empty or absent, and when
\* fs_div is given and is neither 'CFS' nor 'OFS'.
C25_ComparisonRejected ==
    AskedComparison =>
        ((\/ IsEmptyOrAbsent(call.request.companies)
          \/ IsEmptyOrAbsent(call.request.years)
          \/ (call.request.fs_div.present
                /\ call.request.fs_div.value \notin {"CFS", "OFS"})) =>
            result.status = 400 /\ result.fetches = 0)

\* Two companies, one year and the fs_div 'ALL': 400.
C25_Witness ==
    /\ AskedComparison
    /\ call.request.companies = JsonField(Items(2))
    /\ call.request.years = JsonField(Items(1))
    /\ call.request.fs_div = JsonField("ALL")
    /\ call.available = "all"
    /\ result.status = 400
    /\ result.fetches = 0

\* The pairs of a request the client has data for.
PairsWithData(n, m, available) ==
    {p \in (1..n) \X (1..m) : available = "all" \/ (available = "first" /\ p[1] = 1)}

\* C26: POST /api/financial/comparison with a company, a year and a valid
\* fs_div is answered 200 with 'data' and 'summary': 'data' has an entry for
\* each pair of company and year the client has statements for, and
\* 'summary' a row for each entry.
C26_ComparisonAnswered ==
    (/\ AskedComparison
     /\ ~IsEmptyOrAbsent(call.request.companies)
     /\ ~IsEmptyOrAbsent(call.request.years)
     /\ (~call.request.fs_div.present \/ call.request.fs_div.value \in {"CFS", "OFS"})) =>
        /\ result.status = 200
        /\ DOMAIN result.body = {"data", "summary"}
        /\ {result.body.data[i] : i \in 1..Len(result.body.data)} =
              PairsWithData(Len(call.request.companies.value),
                            Len(call.request.years.value),
                            call.available)
        /\ result.body.summary = Len(result.body.data)

\* C30: no request to the statements, ratios or comparison endpoint makes
\* more than 10 x 5 statement fetches.
C30_FetchesBounded ==
    call.op \in {"GET /api/financial/statements", "GET /api/financial/ratios",
                 "POST /api/financial/comparison"} =>
        result.fetches <= 10 * 5

=============================================================================
